---- MODULE Spec2Model ----
(***************************************************************************)
(* Personal Account Manager: the transactional request-handling layer.     *)
(* The eight Account/Task endpoints of app/main.py run inside the          *)
(* get_session context manager of app/database.py, against the tables      *)
(* declared in app/models.py.  A request advances one storage call at a    *)
(* time; every storage call may raise SQLAlchemyError.                     *)
(***************************************************************************)
EXTENDS Integers, Sequences, FiniteSets, TLC

\* ---------------------------------------------------------------- bounds
\* Largest identifier used in request paths and that storage may assign.
MaxId == 2
\* Largest reading of the clock (datetime.utcnow); the clock starts at 1.
MaxClock == 2
\* Most rows the two tables hold together.
MaxRows == 3
\* Most sessions constructed while the constructed sessions are counted.
MaxSessions == 3

\* Request slots: the requests that the transport layer runs concurrently.
Reqs == {1, 2}
\* The one slot of the sequential specification.
SeqReqs == {1}

\* Python's None for Optional[int] / Optional[datetime], and for Optional[str].
None == 0
NoneStr == "None"

VARIABLES
    accounts,   \* committed rows of table "account"
    tasks,      \* committed rows of table "task"
    clock,      \* datetime.utcnow()
    req,        \* per slot: the request in progress and its response
    live,       \* the clients' ledger: per collection, the ids whose create
                \* answered 200 with no delete answering 200 since (kept when on)
    made        \* the calls of Session(engine) so far (counted when on)

vars == <<accounts, tasks, clock, req, live, made>>

\* ------------------------------------------------------------ operations
AccountOps == {"list_accounts", "create_account", "update_account", "delete_account"}
TaskOps == {"list_tasks", "create_task", "update_task", "delete_task"}
ListOps == {"list_accounts", "list_tasks"}
CreateOps == {"create_account", "create_task"}
UpdateOps == {"update_account", "update_task"}
DeleteOps == {"delete_account", "delete_task"}

\* The collection an endpoint works on.
Coll(op) == IF op \in AccountOps THEN "accounts" ELSE "tasks"

\* detail= of the HTTPException(500) raised by each handler's except clause.
Detail(op) ==
    CASE op = "list_accounts" -> "Database error while listing accounts"
      [] op = "create_account" -> "Database error while creating account"
      [] op = "update_account" -> "Database error while updating account"
      [] op = "delete_account" -> "Database error while deleting account"
      [] op = "list_tasks" -> "Database error while listing tasks"
      [] op = "create_task" -> "Database error while creating task"
      [] op = "update_task" -> "Database error while updating task"
      [] op = "delete_task" -> "Database error while deleting task"

\* detail= of the HTTPException(404) raised when session.get returns None.
NotFoundDetail(op) ==
    IF op \in AccountOps THEN "Account not found" ELSE "Task not found"

\* What the transport layer answers for an exception that is no HTTPException.
InternalServerError == "Internal Server Error"

\* --------------------------------------------------------------- payloads
\* A textual ISO-8601 timestamp is the text of a clock reading.
IsoFormat(t) == <<"iso", t>>
FromIsoFormat(s) == s[2]
DueIso == IsoFormat(MaxClock)

\* JSON bodies of POST/PUT /accounts.
AccountJsons ==
    { [name |-> "A"],
      [name |-> "B", status |-> "closed", tags |-> "t", owner |-> "o"],
      [id |-> 1, name |-> "A"] }

\* JSON bodies of POST/PUT /tasks.
TaskJsons ==
    { [title |-> "T", account_id |-> 1],
      [title |-> "N", status |-> "done", due_date |-> DueIso, account_id |-> 2],
      [id |-> 1, title |-> "T", account_id |-> 1] }

\* A key of the JSON body, or the field's default when the body omits it.
Field(json, key, default) ==
    IF key \in DOMAIN json THEN json[key] ELSE default

\* Account(**json): declared fields only; t1, t2 are the two readings of
\* default_factory=datetime.utcnow.
AccountValidate(json, t1, t2) ==
    [ id |-> Field(json, "id", None),
      name |-> json.name,
      status |-> Field(json, "status", "active"),
      tags |-> Field(json, "tags", NoneStr),
      owner |-> Field(json, "owner", NoneStr),
      created_at |-> t1,
      updated_at |-> t2 ]

\* Task(**json): declared fields only; a key that is no field of Task
\* (due_date) is dropped.
TaskValidate(json, t1, t2) ==
    [ id |-> Field(json, "id", None),
      account_id |-> json.account_id,
      contact_id |-> Field(json, "contact_id", None),
      title |-> json.title,
      description |-> Field(json, "description", NoneStr),
      due_at |-> Field(json, "due_at", None),
      status |-> Field(json, "status", "pending"),
      priority |-> Field(json, "priority", 0),
      attachments_count |-> Field(json, "attachments_count", 0),
      created_at |-> t1,
      updated_at |-> t2,
      completed_at |-> Field(json, "completed_at", None) ]

\* hasattr(obj, name): an instance has exactly its model's declared fields.
HasAttr(obj, name) == name \in DOMAIN obj

\* ---------------------------------------------------------------- storage
RowIds(table) == { x.id : x \in table }

MaxOf(S) == CHOOSE m \in S : \A n \in S : n <= m

\* Mutant of NextId: the largest rowid in use is handed out again.
NextIdReuse(table) == IF table = {} THEN 1 ELSE MaxOf(RowIds(table))

\* The rowid storage assigns to an INSERT that gives no id (INTEGER PRIMARY KEY).
NextId(table) == IF table = {} THEN 1 ELSE MaxOf(RowIds(table)) + 1

\* None where an instance is expected (Optional[Account], Optional[Task]).
NoRow == [id |-> None]
IsNone(x) == x.id = None

\* Mutant of SessionGet: the primary key is not matched, any row is returned.
SessionGetAny(table, id) ==
    IF table # {} THEN CHOOSE x \in table : TRUE ELSE NoRow

\* session.get(Model, id): the row with that primary key, or None.
SessionGet(table, id) ==
    IF id \in RowIds(table) THEN CHOOSE x \in table : x.id = id ELSE NoRow

\* The id OF the row that INSERT writes for a pending instance.
InsertId(table, obj) == IF obj.id = None THEN NextId(table) ELSE obj.id

\* INSERT violates the PRIMARY KEY constraint.
InsertConflicts(table, obj) == obj.id # None /\ obj.id \in RowIds(table)

InsertRow(table, obj) == table \cup { [obj EXCEPT !.id = InsertId(table, obj)] }

\* Columns of a loaded instance that the handler changed (the dirty attributes).
Dirty(row, obj) == { f \in DOMAIN obj : obj[f] # row[f] }

\* UPDATE ... SET <dirty columns> WHERE id = obj.id
UpdateRow(table, row, obj) ==
    { IF x.id = obj.id
        THEN [f \in DOMAIN x |-> IF f \in Dirty(row, obj) THEN obj[f] ELSE x[f]]
        ELSE x : x \in table }

\* Mutant of DeleteRow: the DELETE removes nothing.
DeleteNothing(table, id) == table

\* DELETE ... WHERE id = id
DeleteRow(table, id) == { x \in table : x.id # id }

Table(coll) == IF coll = "accounts" THEN accounts ELSE tasks

\* --------------------------------------------------------------- requests
NoJson == [none |-> TRUE]
NoBody == [none |-> TRUE]

\* A slot that runs no request.
Idle ==
    [ pc |-> "idle",       \* idle, flush, commit, refresh, exit, done
      op |-> "none",
      id |-> None,         \* the {account_id} / {task_id} of the path
      json |-> NoJson,     \* the request body
      obj |-> NoRow,       \* the instance the session holds as pending / dirty
      row |-> NoRow,       \* that instance as session.get loaded it
      kids |-> {},         \* ids of the account's tasks as the flush loaded them
      session |-> "none",  \* none, open, closed
      sid |-> None,        \* which Session object the request's "session" names
      closes |-> 0,        \* calls of session.close()
      trace |-> << >>,     \* session calls and log entries so far
      exc |-> "none",      \* the exception that ended the handler body / the exit commit
      cause |-> "none",    \* the exception a "raise ... from exc" carries as its cause
      failed |-> "none",   \* the storage call that raised SQLAlchemyError
      wrote |-> FALSE,     \* a commit of this request changed the persisted tables
      absent |-> FALSE,    \* session.get returned None
      at |-> None,         \* the clock when an update handler overwrote the fields
      status |-> 0,
      detail |-> "",
      body |-> NoBody ]

\* Mutant of OpenSession: one Session object, made at import, serves every request.
OpenSessionShared(op, id, json) ==
    [Idle EXCEPT !.op = op, !.id = id, !.json = json,
                 !.session = "open", !.sid = 1, !.trace = <<"open">>]

\* get_session line 55: session = Session(engine), a local of this call: the
\* object is the one that this call of the constructor makes.
OpenSession(op, id, json) ==
    [Idle EXCEPT !.op = op, !.id = id, !.json = json,
                 !.session = "open",
                 !.sid = IF made.on THEN made.n + 1 ELSE None,
                 !.trace = <<"open">>]

Call(q, name) == [q EXCEPT !.trace = Append(@, name)]

\* get_session line 65: finally: session.close(); the request is over.
SessionClose(q) ==
    [q EXCEPT !.pc = "done", !.session = "closed", !.closes = @ + 1,
              !.trace = Append(@, "close"), !.obj = NoRow, !.row = NoRow,
              !.kids = {}]

\* Mutant of HandlerExcept: the handler re-raises the SQLAlchemyError it caught,
\* so get_session's except clause rolls back again and raises RuntimeError.
HandlerExceptReraise(q, call, exc) ==
    SessionClose(
        [Call(Call(Call(Call(Call(Call(q, call), "raise"), "rollback"), "log"),
                   "rollback"), "log")
            EXCEPT !.exc = "RuntimeError", !.cause = exc, !.failed = call,
                   !.status = 500, !.detail = InternalServerError])

\* A handler's "except SQLAlchemyError" clause: roll back, log, and raise
\* HTTPException(500), which get_session lets through to its finally.
HandlerExcept(q, call, exc) ==
    SessionClose(
        [Call(Call(Call(Call(q, call), "raise"), "rollback"), "log")
            EXCEPT !.exc = exc, !.cause = exc, !.failed = call,
                   !.status = 500, !.detail = Detail(q.op)])

\* Mutant of RaiseNotFound: the handler's except clause catches every
\* exception, the HTTPException(404) included, and answers 500.
RaiseNotFoundCaught(q) ==
    SessionClose(
        [Call(Call(Call(q, "get"), "rollback"), "log")
            EXCEPT !.absent = TRUE, !.exc = "HTTPException",
                   !.status = 500, !.detail = Detail(q.op)])

\* Mutant of RaiseNotFound: get_session commits in its finally clause, on
\* every exit path.
RaiseNotFoundCommit(q) ==
    SessionClose(
        [Call(Call(q, "get"), "commit")
            EXCEPT !.absent = TRUE, !.exc = "HTTPException",
                   !.status = 404, !.detail = NotFoundDetail(q.op)])

\* raise HTTPException(status_code=404), which no except clause catches.
RaiseNotFound(q) ==
    SessionClose(
        [Call(q, "get") EXCEPT !.absent = TRUE, !.exc = "HTTPException",
                               !.status = 404, !.detail = NotFoundDetail(q.op)])

\* Mutant of RaiseUnhandled: get_session closes in an else branch, not in finally.
RaiseUnhandledOpen(q, exc) ==
    [q EXCEPT !.pc = "done", !.exc = exc, !.status = 500,
              !.detail = InternalServerError]

\* An exception that is neither SQLAlchemyError nor HTTPException leaves the
\* handler and get_session (finally only); the transport layer answers 500.
RaiseUnhandled(q, exc) ==
    SessionClose(
        [q EXCEPT !.exc = exc, !.status = 500, !.detail = InternalServerError])

\* Mutant of SessionExit: a failure of the exit commit is swallowed.
SessionExitSwallow(q, fails) ==
    SessionClose([Call(q, "commit") EXCEPT
                    !.failed = IF fails THEN "exit_commit" ELSE "none",
                    !.status = 200])

\* Mutant of SessionExit: get_session closes the session without committing.
SessionExitNoCommit(q, fails) == SessionClose([q EXCEPT !.status = 200])

\* get_session lines 58-65 once the handler body has returned: commit; on
\* SQLAlchemyError roll back, log and raise RuntimeError; finally close.
SessionExit(q, fails) ==
    IF fails
      THEN SessionClose(
             [Call(Call(Call(Call(q, "commit"), "raise"), "rollback"), "log")
                 EXCEPT !.exc = "RuntimeError", !.cause = "SQLAlchemyError",
                        !.failed = "exit_commit",
                        !.status = 500, !.detail = InternalServerError])
      ELSE SessionClose([Call(q, "commit") EXCEPT !.status = 200])

\* ------------------------------------------------------------ bookkeeping
\* Creates of a collection that have added their instance and not yet flushed it.
PendingCreates(coll) ==
    { s \in Reqs : req[s].pc = "commit" /\ req[s].op \in CreateOps
                   /\ Coll(req[s].op) = coll }

\* A further create keeps every identifier within 1..MaxId and the tables
\* within MaxRows rows.
CreateFits(coll, obj) ==
    LET autos == Cardinality({ s \in PendingCreates(coll) : req[s].obj.id = None })
                 + (IF obj.id = None THEN 1 ELSE 0)
        given == RowIds(Table(coll)) \cup { req[s].obj.id : s \in PendingCreates(coll) }
                 \cup {obj.id}
        pending == PendingCreates("accounts") \cup PendingCreates("tasks")
    IN  /\ MaxOf(given \cup {0}) + autos <= MaxId
        /\ Cardinality(accounts) + Cardinality(tasks) + Cardinality(pending) < MaxRows

Free(r) == req[r].pc \in {"idle", "done"}

\* The ledger once slot r has moved to q.
LiveAfter(q) ==
    IF live.on /\ q.pc = "done" /\ q.status = 200 /\ q.op \in CreateOps
      THEN [live EXCEPT ![Coll(q.op)] = @ \cup {q.body.id}]
    ELSE IF live.on /\ q.pc = "done" /\ q.status = 200 /\ q.op \in DeleteOps
      THEN [live EXCEPT ![Coll(q.op)] = @ \ {q.id}]
    ELSE live

\* The constructed sessions once slot r has moved: a slot that was free has
\* entered get_session.
MadeAfter(r) ==
    IF made.on /\ Free(r) THEN [made EXCEPT !.n = @ + 1] ELSE made

\* Slot r moves to q; the tables become acc and tsk.
Step(r, q, acc, tsk) ==
    /\ made.on /\ Free(r) => made.n < MaxSessions
    /\ req' = [req EXCEPT ![r] = q]
    /\ accounts' = acc
    /\ tasks' = tsk
    /\ live' = LiveAfter(q)
    /\ made' = MadeAfter(r)

\* A step of slot r that writes nothing.
Local(r, q) == Step(r, q, accounts, tasks) /\ UNCHANGED clock

\* ---------------------------------------------------------------- handlers
\* list_accounts / list_tasks up to the return: session.exec(select(Model)).all()
\* and model_dump of each row.
ListBody(r, op, faults) ==
    /\ Free(r)
    /\ \E fails \in faults :
         LET q == OpenSession(op, None, NoJson)
         IN  IF fails
               THEN Local(r, HandlerExcept(q, "exec", "SQLAlchemyError"))
               ELSE Local(r, [Call(q, "exec") EXCEPT !.pc = "exit",
                                                     !.body = Table(Coll(op))])

list_accounts(r) == ListBody(r, "list_accounts", BOOLEAN)

list_tasks(r) == ListBody(r, "list_tasks", BOOLEAN)

\* create_account / create_task up to session.add: the body is validated into
\* an instance (the clock advances by adv between the two default_factory calls).
CreateBody(r, op, jsons, advs, faults) ==
    /\ Free(r)
    /\ \E json \in jsons, adv \in advs, fails \in faults :
         LET obj == IF op = "create_account"
                      THEN AccountValidate(json, clock, clock + adv)
                      ELSE TaskValidate(json, clock, clock + adv)
             q == OpenSession(op, None, json)
         IN  /\ clock + adv <= MaxClock
             /\ CreateFits(Coll(op), obj)
             /\ clock' = clock + adv
             /\ IF fails
                  THEN Step(r, HandlerExcept(q, "add", "SQLAlchemyError"),
                            accounts, tasks)
                  ELSE Step(r, [Call(q, "add") EXCEPT !.pc = "commit", !.obj = obj],
                            accounts, tasks)

create_account(r) == CreateBody(r, "create_account", AccountJsons, {0, 1}, BOOLEAN)

create_task(r) == CreateBody(r, "create_task", TaskJsons, {0, 1}, BOOLEAN)

\* update_account up to session.add: fetch, 404 if absent, else overwrite
\* name, status, tags, owner, set updated_at = datetime.utcnow() and add the
\* instance; session.get and session.add may raise.
UpdateAccountBody(r, ids, jsons, faults) ==
    /\ Free(r)
    /\ \E id \in ids, json \in jsons, fails \in faults, addfails \in faults :
         LET account == AccountValidate(json, clock, clock)
             q == OpenSession("update_account", id, json)
             existing_account == SessionGet(accounts, id)
         IN  IF fails
               THEN Local(r, HandlerExcept(q, "get", "SQLAlchemyError"))
             ELSE IF IsNone(existing_account)
               THEN Local(r, RaiseNotFound(q))
             ELSE IF addfails
               THEN Local(r, HandlerExcept([Call(q, "get") EXCEPT !.at = clock],
                                           "add", "SQLAlchemyError"))
             ELSE Local(r, [Call(Call(q, "get"), "add") EXCEPT
                              !.pc = "commit",
                              !.at = clock,
                              !.row = existing_account,
                              !.obj = [existing_account EXCEPT
                                         !.name = account.name,
                                         !.status = account.status,
                                         !.tags = account.tags,
                                         !.owner = account.owner,
                                         !.updated_at = clock]])

update_account(r) == UpdateAccountBody(r, 1..MaxId, AccountJsons, BOOLEAN)

\* update_task up to session.add: fetch, 404 if absent, else overwrite title and
\* status, then read task.due_date, which Task does not declare.
update_task(r) ==
    /\ Free(r)
    /\ \E id \in 1..MaxId, json \in TaskJsons, fails \in BOOLEAN :
         LET task == TaskValidate(json, clock, clock)
             q == OpenSession("update_task", id, json)
             existing_task == SessionGet(tasks, id)
             titled == [existing_task EXCEPT !.title = task.title,
                                             !.status = task.status]
         IN  IF fails
               THEN Local(r, HandlerExcept(q, "get", "SQLAlchemyError"))
             ELSE IF IsNone(existing_task)
               THEN Local(r, RaiseNotFound(q))
             ELSE IF ~HasAttr(task, "due_date")
               THEN Local(r, RaiseUnhandled(
                              [Call(q, "get") EXCEPT !.row = existing_task,
                                                     !.obj = titled,
                                                     !.at = clock],
                              "AttributeError"))
             ELSE Local(r, [Call(Call(q, "get"), "add") EXCEPT
                              !.pc = "commit",
                              !.at = clock,
                              !.row = existing_task,
                              !.obj = [titled EXCEPT
                                         !.due_at = IF task.due_date \in Nat
                                                      THEN task.due_date
                                                      ELSE FromIsoFormat(task.due_date),
                                         !.account_id = task.account_id]])

\* delete_account / delete_task up to session.delete: fetch, 404 if absent,
\* else mark the instance deleted; session.get and session.delete may raise.
\* The commit of a delete_account starts by loading the account's children.
DeleteBody(r, op, ids, faults) ==
    /\ Free(r)
    /\ \E id \in ids, fails \in faults, delfails \in faults :
         LET q == OpenSession(op, id, NoJson)
             found == SessionGet(Table(Coll(op)), id)
         IN  IF fails
               THEN Local(r, HandlerExcept(q, "get", "SQLAlchemyError"))
             ELSE IF IsNone(found)
               THEN Local(r, RaiseNotFound(q))
             ELSE IF delfails
               THEN Local(r, HandlerExcept(Call(q, "get"), "delete", "SQLAlchemyError"))
             ELSE Local(r, [Call(Call(q, "get"), "delete") EXCEPT
                              !.pc = IF op = "delete_account" THEN "flush" ELSE "commit",
                              !.row = found, !.obj = found])

delete_account(r) == DeleteBody(r, "delete_account", 1..MaxId, BOOLEAN)

delete_task(r) == DeleteBody(r, "delete_task", 1..MaxId, BOOLEAN)

\* ------------------------------------------------------- the storage calls
\* Children of an account: rows of "task" whose account_id is the account's id.
TasksOf(id) == { t \in tasks : t.account_id = id }

\* UPDATE task SET account_id = NULL for the loaded children: the NOT NULL
\* column refuses it for a child that is stored; when none of them is stored
\* any more the UPDATE matches no row.
NullifyError(kids) ==
    IF kids \cap RowIds(tasks) # {} THEN "IntegrityError" ELSE "StaleDataError"

\* Mutant of Flush: a DELETE that matches no row raises StaleDataError, as an
\* UPDATE that matches no row does.
FlushDeleteStale(q, table) ==
    IF q.op \in CreateOps
      THEN IF InsertConflicts(table, q.obj)
             THEN [exc |-> "IntegrityError", table |-> table, obj |-> q.obj]
             ELSE [exc |-> "none", table |-> InsertRow(table, q.obj),
                   obj |-> [q.obj EXCEPT !.id = InsertId(table, q.obj)]]
    ELSE IF q.op \in UpdateOps
      THEN IF Dirty(q.row, q.obj) = {}
             THEN [exc |-> "none", table |-> table, obj |-> q.obj]
           ELSE IF q.obj.id \notin RowIds(table)
             THEN [exc |-> "StaleDataError", table |-> table, obj |-> q.obj]
           ELSE [exc |-> "none", table |-> UpdateRow(table, q.row, q.obj),
                 obj |-> q.obj]
    ELSE IF q.op = "delete_account" /\ q.kids # {}
             THEN [exc |-> NullifyError(q.kids), table |-> table, obj |-> q.obj]
         ELSE IF q.id \notin RowIds(table)
             THEN [exc |-> "StaleDataError", table |-> table, obj |-> q.obj]
         ELSE [exc |-> "none", table |-> DeleteRow(table, q.id), obj |-> q.obj]

\* The flush inside session.commit(): the INSERT, UPDATE or DELETE of the
\* request's instance against its table, and the exception it raises if any.
Flush(q, table) ==
    IF q.op \in CreateOps
      THEN IF InsertConflicts(table, q.obj)
             THEN [exc |-> "IntegrityError", table |-> table, obj |-> q.obj]
             ELSE [exc |-> "none", table |-> InsertRow(table, q.obj),
                   obj |-> [q.obj EXCEPT !.id = InsertId(table, q.obj)]]
    ELSE IF q.op \in UpdateOps
      THEN IF Dirty(q.row, q.obj) = {}
             THEN [exc |-> "none", table |-> table, obj |-> q.obj]
           ELSE IF q.obj.id \notin RowIds(table)
             THEN [exc |-> "StaleDataError", table |-> table, obj |-> q.obj]
           ELSE [exc |-> "none", table |-> UpdateRow(table, q.row, q.obj),
                 obj |-> q.obj]
    ELSE \* Account.tasks has no delete cascade: the account_id of the children
         \* that the flush loaded is set to NULL before the DELETE.
         IF q.op = "delete_account" /\ q.kids # {}
             THEN [exc |-> NullifyError(q.kids), table |-> table, obj |-> q.obj]
             ELSE [exc |-> "none", table |-> DeleteRow(table, q.id), obj |-> q.obj]

\* session.commit() of delete_account (main.py line 140), first part: the flush
\* loads Account.tasks with a SELECT, which leaves no transaction open; the
\* UPDATE/DELETE and COMMIT follow in SessionCommit. (The other children of an
\* account, and those of a task, are in tables no endpoint writes.)
SessionFlushLoad(r, faults) ==
    /\ req[r].pc = "flush"
    /\ \E fails \in faults :
         LET q == req[r]
         IN  IF fails
               THEN Local(r, HandlerExcept(q, "commit", "SQLAlchemyError"))
               ELSE Local(r, [q EXCEPT !.pc = "commit",
                                       !.kids = RowIds(TasksOf(q.id))])

LoadChildren(r) == SessionFlushLoad(r, BOOLEAN)

\* session.commit() in the handler body (main.py lines 87, 119, 140, 173, 204, 225):
\* the INSERT, UPDATE or DELETE and the COMMIT.
SessionCommit(r, faults) ==
    /\ req[r].pc = "commit"
    /\ UNCHANGED clock
    /\ \E fails \in faults :
         LET q == req[r]
             coll == Coll(q.op)
             f == Flush(q, Table(coll))
             next == [Call(q, "commit") EXCEPT
                        !.pc = IF q.op \in DeleteOps THEN "exit" ELSE "refresh",
                        !.obj = f.obj,
                        !.wrote = (f.table # Table(coll)),
                        !.body = IF q.op \in DeleteOps THEN [ok |-> TRUE] ELSE @]
         IN  IF fails
               THEN Step(r, HandlerExcept(q, "commit", "SQLAlchemyError"),
                         accounts, tasks)
             ELSE IF f.exc # "none"
               THEN Step(r, HandlerExcept(q, "commit", f.exc), accounts, tasks)
             ELSE Step(r, next,
                       IF coll = "accounts" THEN f.table ELSE accounts,
                       IF coll = "tasks" THEN f.table ELSE tasks)

Commit(r) == SessionCommit(r, BOOLEAN)

\* session.refresh(instance) and model_dump (main.py lines 88-89, 120-121,
\* 174-175, 205-206): re-read the row by primary key.
SessionRefresh(r, faults) ==
    /\ req[r].pc = "refresh"
    /\ \E fails \in faults :
         LET q == req[r]
             fresh == SessionGet(Table(Coll(q.op)), q.obj.id)
         IN  IF fails
               THEN Local(r, HandlerExcept(q, "refresh", "SQLAlchemyError"))
             ELSE IF IsNone(fresh)
               THEN Local(r, HandlerExcept(q, "refresh", "InvalidRequestError"))
             ELSE Local(r, [Call(q, "refresh") EXCEPT
                              !.pc = "exit", !.obj = fresh, !.body = fresh])

Refresh(r) == SessionRefresh(r, BOOLEAN)

\* The handler body has returned: get_session resumes after its yield.
GetSessionExit(r, faults) ==
    /\ req[r].pc = "exit"
    /\ \E fails \in faults : Local(r, SessionExit(req[r], fails))

ExitCommit(r) == GetSessionExit(r, BOOLEAN)

\* Time passes.
Tick ==
    /\ clock < MaxClock
    /\ clock' = clock + 1
    /\ UNCHANGED <<accounts, tasks, req, live, made>>

\* ------------------------------------------------------------ the program
NoLedger == [on |-> FALSE, accounts |-> {}, tasks |-> {}]
NoSessions == [on |-> FALSE, n |-> 0]

\* The state after startup (init_db): empty tables, no request in progress.
Init ==
    /\ accounts = {}
    /\ tasks = {}
    /\ clock = 1
    /\ req = [r \in Reqs |-> Idle]
    /\ live = NoLedger
    /\ made = NoSessions

\* The same, with the clients' ledger kept.
InitLedger ==
    /\ accounts = {}
    /\ tasks = {}
    /\ clock = 1
    /\ req = [r \in Reqs |-> Idle]
    /\ live = [NoLedger EXCEPT !.on = TRUE]
    /\ made = NoSessions

Run(r) ==
    \/ list_accounts(r)
    \/ create_account(r)
    \/ update_account(r)
    \/ delete_account(r)
    \/ list_tasks(r)
    \/ create_task(r)
    \/ update_task(r)
    \/ delete_task(r)
    \/ LoadChildren(r)
    \/ Commit(r)
    \/ Refresh(r)
    \/ ExitCommit(r)

\* Requests are served one after the other.
Next == Tick \/ \E r \in SeqReqs : Run(r)

Spec == Init /\ [][Next]_vars

\* The same while the clock stands still.
StillCreateAccount(r) == CreateBody(r, "create_account", AccountJsons, {0}, BOOLEAN)
StillCreateTask(r) == CreateBody(r, "create_task", TaskJsons, {0}, BOOLEAN)

NextStill ==
    \E r \in SeqReqs :
        \/ list_accounts(r)
        \/ StillCreateAccount(r)
        \/ update_account(r)
        \/ delete_account(r)
        \/ list_tasks(r)
        \/ StillCreateTask(r)
        \/ update_task(r)
        \/ delete_task(r)
        \/ LoadChildren(r)
        \/ Commit(r)
        \/ Refresh(r)
        \/ ExitCommit(r)

SpecStill == Init /\ [][NextStill]_vars

\* Requests are served concurrently, one slot each, while the clock stands
\* still; no storage call fails for a reason other than the rows it finds.
NoFault == {FALSE}
ConcAccountJsons == { [name |-> "A"], [id |-> 1, name |-> "B", status |-> "closed"] }
ConcTaskJsons == { [title |-> "T", account_id |-> 1] }
ConcIds == {1}

ConcCreateAccount(r) == CreateBody(r, "create_account", ConcAccountJsons, {0}, NoFault)
ConcUpdateAccount(r) == UpdateAccountBody(r, ConcIds, ConcAccountJsons, NoFault)
ConcDeleteAccount(r) == DeleteBody(r, "delete_account", ConcIds, NoFault)
ConcCreateTask(r) == CreateBody(r, "create_task", ConcTaskJsons, {0}, NoFault)
ConcDeleteTask(r) == DeleteBody(r, "delete_task", ConcIds, NoFault)
ConcLoadChildren(r) == SessionFlushLoad(r, NoFault)
ConcCommit(r) == SessionCommit(r, NoFault)
ConcRefresh(r) == SessionRefresh(r, NoFault)
ConcExitCommit(r) == GetSessionExit(r, NoFault)

NextConc ==
    \E r \in Reqs :
        \/ ConcCreateAccount(r)
        \/ ConcUpdateAccount(r)
        \/ ConcDeleteAccount(r)
        \/ ConcCreateTask(r)
        \/ ConcDeleteTask(r)
        \/ ConcLoadChildren(r)
        \/ ConcCommit(r)
        \/ ConcRefresh(r)
        \/ ConcExitCommit(r)

SpecConc == Init /\ [][NextConc]_vars

\* The same, with the constructed sessions counted.
InitSessions ==
    /\ accounts = {}
    /\ tasks = {}
    /\ clock = 1
    /\ req = [r \in Reqs |-> Idle]
    /\ live = NoLedger
    /\ made = [NoSessions EXCEPT !.on = TRUE]

SpecSessions == InitSessions /\ [][NextConc]_vars

\* Sequential creates, deletes and lists while the clock stands still, with
\* the clients' ledger kept.
NextLedger ==
    \E r \in SeqReqs :
        \/ list_accounts(r)
        \/ StillCreateAccount(r)
        \/ delete_account(r)
        \/ list_tasks(r)
        \/ StillCreateTask(r)
        \/ delete_task(r)
        \/ LoadChildren(r)
        \/ Commit(r)
        \/ Refresh(r)
        \/ ExitCommit(r)

SpecLedger == InitLedger /\ [][NextLedger]_vars

\* ------------------------------------------------------------- properties
Done(r) == req[r].pc = "done"

\* Slot r starts a request in this step.
Enters(r) == Free(r) /\ req'[r] # req[r]

\* Slot r's request ends in this step.
Ends(r) == ~Free(r) /\ req'[r].pc = "done"

\* C1: if a storage call of a request raises SQLAlchemyError, the persisted
\* Account and Task collections after the request equal those before it: the
\* request has committed no change.
C1_NoPartialMutation ==
    \A r \in SeqReqs :
        Done(r) /\ req[r].failed # "none" => ~req[r].wrote

\* C2: a storage failure raised at any point of a request, the commit of
\* get_session included, is answered 500 with the operation's own detail
\* "Database error while <listing|creating|updating|deleting> <resource>".
C2_OperationSpecific500 ==
    \A r \in SeqReqs :
        Done(r) /\ req[r].failed # "none" =>
            req[r].status = 500 /\ req[r].detail = Detail(req[r].op)

\* C3: the session a request opens is closed exactly once on every exit path
\* (return, HTTPException 404 or 500, failure of the exit commit, any other
\* exception), and a slot that runs no request holds no open session.
C3_SessionClosedOnce ==
    \A r \in SeqReqs :
        /\ Done(r) => req[r].session = "closed" /\ req[r].closes = 1
        /\ req[r].pc \in {"flush", "commit", "refresh", "exit"} =>
              req[r].session = "open" /\ req[r].closes = 0
        /\ req[r].pc = "idle" => req[r].session = "none"

\* C3 witness: a request ended by an exception that is neither SQLAlchemyError
\* nor HTTPException has closed its session.
C3_Witness ==
    \E r \in SeqReqs :
        Done(r) /\ req[r].exc = "AttributeError" /\ req[r].session = "closed"

\* C4: a list answered 200 returns exactly the records whose create answered
\* 200 and that no delete answering 200 has removed since.
C4_ListIsLedger ==
    \A r \in SeqReqs :
        Done(r) /\ req[r].op \in ListOps /\ req[r].status = 200 =>
            RowIds(req[r].body) = live[Coll(req[r].op)]

\* C5: a create answered 200 returns a record with a non-null identifier that
\* is the identifier of no other row, and in every state no two rows of a
\* table share an identifier.
C5_IdsUnique ==
    /\ \A r \in Reqs :
          Done(r) /\ req[r].op \in CreateOps /\ req[r].status = 200 =>
              req[r].body.id # None
    /\ \A x, y \in accounts : x.id = y.id => x = y
    /\ \A x, y \in tasks : x.id = y.id => x = y

\* C5 witness: two creates of accounts overlap, both have committed their
\* insert under different identifiers, and neither has returned yet.
C5_Witness ==
    /\ \A r \in Reqs :
          /\ req[r].op = "create_account" /\ req[r].pc = "refresh"
          /\ req[r].obj.id \in RowIds(accounts)
    /\ req[1].obj.id # req[2].obj.id

\* C6: a create whose body carries an id (no storage call being made to fail)
\* does not fail and does not overwrite: its commit inserts one new row under
\* the identifier storage assigns, whatever id the body gave.
C6_PayloadIdIgnored ==
    [][\A r \in SeqReqs :
         LET q == req[r]
             old == Table(Coll(q.op))
             new == IF Coll(q.op) = "accounts" THEN accounts' ELSE tasks'
         IN  ( /\ q.pc = "commit" /\ q.op \in CreateOps /\ "id" \in DOMAIN q.json
               /\ req'[r] # q /\ req'[r].exc # "SQLAlchemyError" )
             => /\ req'[r].pc = "refresh"
                /\ req'[r].obj.id = NextId(old)
                /\ old \subseteq new
                /\ RowIds(new) = RowIds(old) \cup {NextId(old)}]_vars

\* C7: a PUT whose id is not in the collection is answered 404 "... not found"
\* (500 only if session.get itself is made to fail, never 200) and the step
\* leaves both tables as they were.
C7_UpdateAbsent ==
    [][\A r \in SeqReqs :
         ( /\ Enters(r) /\ req'[r].op \in UpdateOps
           /\ req'[r].id \notin RowIds(Table(Coll(req'[r].op))) )
         => /\ req'[r].pc = "done"
            /\ req'[r].status \in {404, 500}
            /\ req'[r].failed = "none" =>
                  /\ req'[r].status = 404
                  /\ req'[r].detail = NotFoundDetail(req'[r].op)
            /\ UNCHANGED <<accounts, tasks>>]_vars

\* C7 witness: a PUT /accounts/{id} for an id that is not stored, while another
\* account is, has been answered 404.
C7_Witness ==
    \E r \in SeqReqs :
        /\ Done(r) /\ req[r].op = "update_account" /\ req[r].status = 404
        /\ accounts # {}
        /\ req[r].id \notin RowIds(accounts)

\* C8: a delete answered 200 returns {"ok": true} and has removed the row; an
\* id that is not stored comes back only through a create; and while it is not
\* stored a list omits it and a delete of it is answered 404 (500 only if
\* session.get is made to fail, never 200).
C8_DeleteRemoves ==
    [][\A r \in SeqReqs :
         LET q == req'[r]
             old == Table(Coll(q.op))
             new == IF Coll(q.op) = "accounts" THEN accounts' ELSE tasks'
         IN  /\ Ends(r) /\ q.op \in DeleteOps /\ q.status = 200 =>
                 q.body = [ok |-> TRUE] /\ q.id \notin RowIds(new)
             /\ RowIds(new) \ RowIds(old) # {} =>
                 req[r].pc = "commit" /\ q.op \in CreateOps
             /\ Enters(r) /\ q.op \in DeleteOps /\ q.id \notin RowIds(old) =>
                 /\ q.pc = "done" /\ q.status \in {404, 500}
                 /\ q.failed = "none" => q.status = 404
             /\ Enters(r) /\ q.op \in ListOps /\ q.failed = "none" =>
                 q.body = old]_vars

\* C8 witness: a delete of an account has been answered 200 while another
\* account stays stored.
C8_Witness ==
    \E r \in SeqReqs :
        /\ Done(r) /\ req[r].op = "delete_account" /\ req[r].status = 200
        /\ accounts # {}
        /\ req[r].id \notin RowIds(accounts)

\* C9: a PUT on a stored row, no storage call failing, is answered 200 and
\* leaves the row's updated_at at the time of the update.
C9_UpdatedAtRefreshed ==
    \A r \in SeqReqs :
        LET q == req[r]
            table == Table(Coll(q.op))
        IN  ( /\ Done(r) /\ q.op \in UpdateOps /\ q.failed = "none"
              /\ q.id \in RowIds(table) )
            => /\ q.status = 200
               /\ SessionGet(table, q.id).updated_at = q.at

\* C10: a PUT /tasks/{id} on a stored task whose body gives due_date as ISO
\* text, no storage call failing, is answered 200 with that due date, and the
\* stored task carries it.
C10_DueDateRoundTrip ==
    \A r \in SeqReqs :
        LET q == req[r]
        IN  ( /\ Done(r) /\ q.op = "update_task" /\ q.failed = "none"
              /\ "due_date" \in DOMAIN q.json
              /\ q.id \in RowIds(tasks) )
            => /\ q.status = 200
               /\ IsoFormat(q.body.due_at) = q.json.due_date
               /\ IsoFormat(SessionGet(tasks, q.id).due_at) = q.json.due_date

\* C11: an account created from a body that only gives a name (answered 200)
\* reads back with status "active" and with created_at and updated_at that are
\* not null and equal to each other, however the clock moved during creation.
C11_CreatedEqualsUpdated ==
    \A r \in SeqReqs :
        LET q == req[r]
        IN  ( /\ Done(r) /\ q.op = "create_account" /\ q.status = 200
              /\ DOMAIN q.json = {"name"} )
            => /\ q.body.status = "active"
               /\ q.body.created_at # None
               /\ q.body.updated_at # None
               /\ q.body.created_at = q.body.updated_at
               /\ SessionGet(accounts, q.body.id) = q.body

\* The session calls and log entries that this step adds to slot r's trace.
Added(r) ==
    LET old == IF Free(r) THEN << >> ELSE req[r].trace
    IN  SubSeq(req'[r].trace, Len(old) + 1, Len(req'[r].trace))

\* Positions of a call in a sequence of calls.
Positions(tr, name) == { i \in 1..Len(tr) : tr[i] = name }

\* C12: when the handler body has returned, get_session calls commit next and
\* closes the session only after it; when the body raises (HTTPException 404
\* or 500, or any other exception), get_session calls no commit: the only
\* commit such a step can hold is the handler's own call that raised.
C12_ExitCommitBeforeClose ==
    [][\A r \in SeqReqs :
         LET q == req'[r]
             tr == Added(r)
         IN  /\ req[r].pc = "exit" /\ q # req[r] =>
                 /\ q.pc = "done"
                 /\ req[r].session = "open"
                 /\ tr[1] = "commit"
                 /\ Positions(tr, "commit") = {1}
                 /\ Positions(tr, "close") = {Len(tr)}
                 /\ Len(tr) > 1
             /\ req[r].pc # "exit" /\ q # req[r] /\ q.pc = "done" =>
                 /\ q.exc # "none"
                 /\ \A i \in Positions(tr, "commit") :
                       /\ q.failed = "commit"
                       /\ i < Len(tr) /\ tr[i + 1] = "raise"
                 /\ Cardinality(Positions(tr, "commit")) <= 1]_vars

\* C12 witness: a delete whose body returned has been committed by get_session
\* after the handler's own commit, and then closed.
C12_Witness ==
    \E r \in SeqReqs :
        /\ Done(r) /\ req[r].op = "delete_task" /\ req[r].exc = "none"
        /\ req[r].trace = <<"open", "get", "delete", "commit", "commit", "close">>

\* The last n calls of a trace.
LastCalls(tr, n) == SubSeq(tr, Len(tr) - n + 1, Len(tr))

\* C13 as claimed: every storage failure of a request, raised by the handler
\* body or by the exit commit, ends the request with get_session's
\* RuntimeError "Database session error" carrying the failure as its cause,
\* after a rollback.
C13_AnyFailureIsRuntimeError ==
    \A r \in SeqReqs :
        Done(r) /\ req[r].failed # "none" =>
            /\ req[r].exc = "RuntimeError"
            /\ req[r].cause # "none"
            /\ Positions(req[r].trace, "rollback") # {}

\* C13 amended: a failure of the exit commit makes get_session roll back, log
\* and raise RuntimeError "Database session error" from it (answered 500
\* "Internal Server Error") before it closes; a failure raised in the handler
\* body is caught by the handler and never becomes that RuntimeError: it is
\* answered 500 with the operation's own detail.
C13_ExitFailureIsRuntimeError ==
    \A r \in SeqReqs :
        LET q == req[r]
        IN  /\ Done(r) /\ q.failed = "exit_commit" =>
                /\ q.exc = "RuntimeError"
                /\ q.cause = "SQLAlchemyError"
                /\ Len(q.trace) >= 5
                /\ LastCalls(q.trace, 5) = <<"commit", "raise", "rollback", "log", "close">>
                /\ q.status = 500 /\ q.detail = InternalServerError
            /\ Done(r) /\ q.failed \notin {"none", "exit_commit"} =>
                /\ q.exc # "RuntimeError"
                /\ q.cause = q.exc
                /\ q.status = 500 /\ q.detail = Detail(q.op)
            /\ Done(r) /\ q.exc = "RuntimeError" => q.failed = "exit_commit"

\* C13 witness: the exit commit of a create whose row is already stored has
\* failed and the request ended with the RuntimeError.
C13_Witness ==
    \E r \in SeqReqs :
        /\ Done(r) /\ req[r].op = "create_account" /\ req[r].wrote
        /\ req[r].failed = "exit_commit" /\ req[r].exc = "RuntimeError"

\* C14: a request is answered 404 exactly when the id of its path is not
\* stored and no storage call failed; a request with a storage failure is
\* answered 500, never 404; a request whose only problem is the absent id is
\* never answered 500.
C14_FailureClassesDistinct ==
    [][\A r \in SeqReqs :
         LET q == req'[r]
             old == Table(Coll(q.op))
         IN  /\ Enters(r) /\ q.op \in UpdateOps \cup DeleteOps =>
                 /\ q.status = 404 <=> (q.id \notin RowIds(old) /\ q.failed = "none")
                 /\ q.absent <=> q.status = 404
                 /\ q.id \notin RowIds(old) /\ q.failed = "none" => q.status # 500
             /\ q # req[r] /\ q.pc = "done" =>
                 /\ q.failed # "none" => q.status = 500 /\ ~q.absent
                 /\ q.status = 404 =>
                       /\ q.failed = "none" /\ q.absent
                       /\ q.op \in UpdateOps \cup DeleteOps
                       /\ q.detail = NotFoundDetail(q.op)
                 /\ q.status \in {200, 404, 500}]_vars

\* C14 witness: a delete of a task id that is not stored, while another task
\* is, has been answered 404.
C14_Witness ==
    \E r \in SeqReqs :
        /\ Done(r) /\ req[r].op = "delete_task" /\ req[r].status = 404
        /\ req[r].absent /\ tasks # {}

\* C15: the commit of a POST /tasks whose account_id is the id of no stored
\* account adds no row to the Task collection.
C15_TaskNeedsAccount ==
    [][\A r \in SeqReqs :
         ( /\ req[r].pc = "commit" /\ req[r].op = "create_task"
           /\ req[r].obj.account_id \notin RowIds(accounts) )
         => tasks' = tasks]_vars

\* C16: a PUT on a stored row, no storage call failing, overwrites exactly the
\* whitelist with the body's values (model defaults for omitted fields):
\* name, status, tags, owner of an account, with id and created_at kept;
\* title, status, due date, account_id of a task, with id, contact_id,
\* description, priority, attachments_count, created_at and completed_at
\* kept; every other row stays as it was.
C16_UpdateWhitelist ==
    [][\A r \in SeqReqs :
         LET q == req[r]
             n == req'[r]
         IN  /\ ( /\ Enters(r) /\ n.op \in UpdateOps /\ n.failed = "none"
                  /\ n.id \in RowIds(Table(Coll(n.op))) )
                => n.pc = "commit"
             /\ q.pc = "commit" /\ q.op = "update_account" /\ n.pc = "refresh" =>
                 LET old == SessionGet(accounts, q.id)
                     new == SessionGet(accounts', q.id)
                     want == AccountValidate(q.json, None, None)
                 IN  /\ new.name = want.name /\ new.status = want.status
                     /\ new.tags = want.tags /\ new.owner = want.owner
                     /\ new.id = old.id /\ new.created_at = old.created_at
                     /\ accounts' \ {new} = accounts \ {old}
                     /\ tasks' = tasks
             /\ q.pc = "commit" /\ q.op = "update_task" /\ n.pc = "refresh" =>
                 LET old == SessionGet(tasks, q.id)
                     new == SessionGet(tasks', q.id)
                     want == TaskValidate(q.json, None, None)
                 IN  /\ new.title = want.title /\ new.status = want.status
                     /\ new.account_id = want.account_id
                     /\ new.due_at = IF "due_date" \in DOMAIN q.json
                                       THEN FromIsoFormat(q.json.due_date) ELSE None
                     /\ new.id = old.id /\ new.contact_id = old.contact_id
                     /\ new.description = old.description
                     /\ new.priority = old.priority
                     /\ new.attachments_count = old.attachments_count
                     /\ new.created_at = old.created_at
                     /\ new.completed_at = old.completed_at
                     /\ tasks' \ {new} = tasks \ {old}
                     /\ accounts' = accounts]_vars

\* Session calls that read or write storage.
StorageCalls == {"exec", "get", "add", "delete", "refresh"}

\* C17: between opening and closing its session a request commits at most
\* once, and none of its storage calls comes after that commit.
C17_OneUnitOfWork ==
    \A r \in SeqReqs :
        LET tr == req[r].trace
        IN  /\ Cardinality(Positions(tr, "commit")) <= 1
            /\ \A i \in Positions(tr, "commit"), j \in 1..Len(tr) :
                  tr[j] \in StorageCalls => j < i

\* C18: a PUT or DELETE that found no row for its id has called no rollback,
\* written no error log entry and called no commit, in the handler or in
\* get_session; after the fetch its session is only closed.
C18_NotFoundOnlyCloses ==
    \A r \in SeqReqs :
        LET q == req[r]
        IN  Done(r) /\ (q.absent \/ q.status = 404) =>
                /\ q.op \in UpdateOps \cup DeleteOps
                /\ Positions(q.trace, "rollback") = {}
                /\ Positions(q.trace, "log") = {}
                /\ Positions(q.trace, "commit") = {}
                /\ Positions(q.trace, "close") = {Len(q.trace)}
                /\ q.trace = <<"open", "get", "close">>
                /\ ~q.wrote

\* C18 witness: a PUT /tasks/{id} for an id that is not stored has ended with
\* 404 after the fetch alone.
C18_Witness ==
    \E r \in SeqReqs :
        /\ Done(r) /\ req[r].op = "update_task" /\ req[r].status = 404
        /\ req[r].id \notin RowIds(tasks)
        /\ Len(req[r].trace) = 3

\* C19: under every interleaving, the Session object of a request that enters
\* get_session is one that no earlier call constructed; a request keeps using
\* that object until it ends; and no two slots ever name the same object.
C19_SessionPerRequest ==
    [][/\ \A r \in Reqs :
            /\ Enters(r) =>
                 /\ req'[r].sid # None
                 /\ req'[r].sid > made.n
                 /\ \A s \in Reqs : req'[r].sid # req[s].sid
            /\ ~Free(r) => req'[r].sid = req[r].sid
       /\ \A r, s \in Reqs :
            r # s /\ req'[r].session # "none" /\ req'[s].session # "none" =>
                req'[r].sid # req'[s].sid]_vars

\* C19 witness: two requests are in progress at once, on different Session
\* objects, one of them in a slot that has served a request before.
C19_Witness ==
    /\ \A r \in Reqs : req[r].session = "open" /\ req[r].pc # "done"
    /\ req[1].sid # req[2].sid
    /\ made.n >= 3

\* C20: a request whose handler caught a storage failure has rolled back
\* exactly once, in the handler; the HTTPException(500) left get_session as it
\* was raised: no RuntimeError, no commit by get_session after the failure, no
\* second rollback or log entry, then the close.
C20_HandlerFailurePassesThrough ==
    \A r \in SeqReqs :
        LET q == req[r]
            tr == q.trace
        IN  Done(r) /\ q.failed \notin {"none", "exit_commit"} =>
                /\ Cardinality(Positions(tr, "rollback")) = 1
                /\ Cardinality(Positions(tr, "log")) = 1
                /\ Cardinality(Positions(tr, "raise")) = 1
                /\ \A i \in Positions(tr, "raise") :
                      /\ i > 1 /\ tr[i - 1] = q.failed
                      /\ SubSeq(tr, i, Len(tr)) = <<"raise", "rollback", "log", "close">>
                /\ q.exc \notin {"RuntimeError", "none"}
                /\ q.status = 500 /\ q.detail # InternalServerError

\* C20 witness: the commit of a create whose body gave a stored id raised
\* IntegrityError, which the handler caught and rolled back once.
C20_Witness ==
    \E r \in SeqReqs :
        /\ Done(r) /\ req[r].op = "create_account" /\ req[r].failed = "commit"
        /\ req[r].exc = "IntegrityError"
        /\ req[r].trace = <<"open", "add", "commit", "raise", "rollback", "log", "close">>

\* C21: in every reachable state, after any sequence of Account and Task
\* requests, the account_id of every stored task is the id of a stored account.
C21_ReferentialIntegrity ==
    \A t \in tasks : t.account_id \in RowIds(accounts)

\* C22 as claimed: of two concurrent DELETE requests for the same id that both
\* fetched the row, at most one is answered {"ok": true}: two finished deletes
\* of one id are never both answered 200 when one of them removed nothing.
C22_AtMostOneDeleteSucceeds ==
    \A r, s \in Reqs :
        ( /\ r # s /\ Done(r) /\ Done(s)
          /\ req[r].op \in DeleteOps /\ req[s].op = req[r].op
          /\ req[s].id = req[r].id
          /\ ~req[s].absent /\ ~req[s].wrote )
        => ~(req[r].status = 200 /\ req[s].status = 200)

\* C22 amended: a DELETE that fetched the row is answered {"ok": true} whether
\* or not the row is still stored when it commits (its DELETE then matches no
\* row, which is no failure), so two concurrent deletes of one row may both
\* succeed; only a DELETE that fetches after the row is gone is answered 404;
\* the id is not stored once either has committed. (The one refusal: an
\* account that owned tasks when its commit loaded them, answered 500.)
C22_DeleteAfterFetchSucceeds ==
    [][\A r \in Reqs :
         LET q == req[r]
             n == req'[r]
             old == Table(Coll(n.op))
             new == IF Coll(n.op) = "accounts" THEN accounts' ELSE tasks'
         IN  /\ Enters(r) /\ n.op \in DeleteOps =>
                 /\ n.id \notin RowIds(old) => n.pc = "done" /\ n.status = 404
                 /\ n.id \in RowIds(old) => n.pc \in {"flush", "commit"} /\ ~n.absent
             /\ q.pc = "flush" /\ n # q =>
                 n.pc = "commit" /\ n.kids = RowIds(TasksOf(q.id))
             /\ q.pc = "commit" /\ q.op \in DeleteOps /\ n # q =>
                 IF q.op = "delete_account" /\ q.kids # {}
                   THEN n.pc = "done" /\ n.status = 500 /\ new = old
                   ELSE /\ n.pc = "exit" /\ n.body = [ok |-> TRUE]
                        /\ q.id \notin RowIds(new)
                        /\ n.wrote <=> q.id \in RowIds(old)
             /\ q.pc = "exit" /\ q.op \in DeleteOps /\ n # q =>
                 n.pc = "done" /\ n.status = 200 /\ n.body = [ok |-> TRUE]]_vars

\* C22 witness: two deletes of the same task have both been answered
\* {"ok": true}; the second to commit removed nothing.
C22_Witness ==
    \E r, s \in Reqs :
        /\ r # s /\ Done(r) /\ Done(s)
        /\ req[r].op = "delete_task" /\ req[s].op = "delete_task"
        /\ req[r].id = req[s].id
        /\ req[r].status = 200 /\ req[s].status = 200
        /\ req[r].wrote /\ ~req[s].wrote

====
